---- MODULE Spec2Model ----
(***************************************************************************)
(* Model of the Infrastructure usage panel                                 *)
(* (studio/components/interfaces/BillingV2/Usage/Infrastructure.tsx).      *)
(*                                                                         *)
(* The component is a render function over its props, the results of its   *)
(* data hooks, the wall clock and the static catalog.  The state is that   *)
(* input together with `render`, the values computed by the latest render  *)
(* pass; every event (a prop change, a hook result settling, a re-render   *)
(* at a later time) re-runs the whole render function.                     *)
(*                                                                         *)
(* Time is counted in minutes of local time.  A JavaScript number is a     *)
(* record [nan, n]: NaN is kept apart from every integer.                  *)
(***************************************************************************)
EXTENDS Integers, Sequences, FiniteSets, TLC

VARIABLES startDate, endDate, now, catalog, subscription, resourceWarnings,
          addons, infraMonitoring, render

vars == <<startDate, endDate, now, catalog, subscription, resourceWarnings,
          addons, infraMonitoring, render>>

(***************************************************************************)
(* Bounds of the model.                                                    *)
(***************************************************************************)
\* timestamps of the fine grid are 0, 30, 60, ... , 30 * MaxSlot minutes
MaxSlot == 100
\* timestamps of the coarse grid are 0, 12h, 24h, ... , 12h * MaxHalfDay
MaxHalfDay == 5
\* longest disk I/O series
MaxLen == 2
\* largest disk_io_consumption value of a point (the smallest is -1)
MaxVal == 2

(***************************************************************************)
(* Program constants.                                                      *)
(***************************************************************************)
MinutesPerHour == 60
HoursPerDay == 24
HourlyThreshold == 48
DefaultBaselineDiskIo == 87
DefaultMaxDiskIo == 2085
DefaultCpuCores == 2
DefaultMemoryGb == 1

projectRef == "p1"
Metrics == {"max_cpu_usage", "ram_usage", "disk_io_consumption"}

(***************************************************************************)
(* JavaScript numbers and Number().                                        *)
(***************************************************************************)
Num(n) == [nan |-> FALSE, n |-> n]
NaN == [nan |-> TRUE, n |-> 0]

\* The value a data point carries under its attribute key: a number, a
\* numeric string, a non-numeric string, null, or nothing at all.
RawValues ==
    [t : {"number", "numeric_string"}, n : -1..MaxVal]
        \cup {[t |-> "text", n |-> 0], [t |-> "undefined", n |-> 0],
              [t |-> "null", n |-> 0]}

\* Number(x): a number is itself, a numeric string its value, null is 0,
\* undefined and any other string are NaN.
Number(x) ==
    CASE x.t = "number" -> Num(x.n)
      [] x.t = "numeric_string" -> Num(x.n)
      [] x.t = "null" -> Num(0)
      [] OTHER -> NaN

\* Number(x) ?? 0: ?? replaces only null and undefined, and Number() returns
\* neither, so the fallback is never taken.
NumberOrZero(x) == Number(x)

\* Math.min in place of Math.max
MathMaxAsMin(args) ==
    LET S == {args[i] : i \in 1..Len(args)}
    IN  IF \E a \in S : a.nan THEN NaN
        ELSE CHOOSE a \in S : \A b \in S : a.n <= b.n

\* Math.max(a1, ..., ak), k >= 1: NaN when any argument is NaN.
RECURSIVE MathMax(_)
MathMax(args) ==
    IF Len(args) = 1 THEN args[1]
    ELSE LET rest == MathMax(Tail(args))
         IN  IF args[1].nan \/ rest.nan THEN NaN
             ELSE IF args[1].n >= rest.n THEN args[1] ELSE rest

(***************************************************************************)
(* dayjs.  A date prop is undefined, the empty string, a string dayjs      *)
(* cannot parse, or a timestamp.                                           *)
(***************************************************************************)
UndefinedDate == [k |-> "undefined", t |-> 0]
EmptyDate == [k |-> "empty", t |-> 0]
InvalidDate == [k |-> "invalid", t |-> 0]
Ts(t) == [k |-> "ts", t |-> t]

\* JavaScript truthiness of an optional string prop
Truthy(d) == d.k \in {"invalid", "ts"}

\* dayjs(d) at wall-clock time n: dayjs(undefined) is the current time
Dayjs(d, n) ==
    CASE d.k = "undefined" -> [valid |-> TRUE, t |-> n]
      [] d.k = "ts" -> [valid |-> TRUE, t |-> d.t]
      [] OTHER -> [valid |-> FALSE, t |-> 0]

\* dayjs truncates a difference toward zero
AbsFloor(x, d) == IF x < 0 THEN -((-x) \div d) ELSE x \div d

\* a.diff(b, 'hours')
DiffHours(a, b) ==
    IF a.valid /\ b.valid THEN Num(AbsFloor(a.t - b.t, MinutesPerHour)) ELSE NaN

\* a.startOf('day')
StartOfDay(a) ==
    [valid |-> a.valid, t |-> a.t - (a.t % (HoursPerDay * MinutesPerHour))]

\* a.isAfter(b)
IsAfter(a, b) == a.valid /\ b.valid /\ a.t > b.t


(***************************************************************************)
(* Values of the hooks.                                                    *)
(***************************************************************************)
\* useProjectSubscriptionV2Query: data is undefined or a subscription
NoSubscription == [defined |-> FALSE, planId |-> ""]
SubscriptionOf(id) == [defined |-> TRUE, planId |-> id]

\* useInfraMonitoringQuery: nothing yet, a resolved series, or a failure
Loading == [isLoading |-> TRUE, hasData |-> FALSE, data |-> <<>>]
Failed == [isLoading |-> FALSE, hasData |-> FALSE, data |-> <<>>]
Success(series) == [isLoading |-> FALSE, hasData |-> TRUE, data |-> series]

ComputeSpecs(b, m, c, g) ==
    [baseline_disk_io_mbs |-> b, max_disk_io_mbs |-> m, cpu_cores |-> c,
     cpu_dedicated |-> TRUE, memory_gb |-> g]

\* useProjectAddonsQuery: data is undefined or carries selected_addons
NoAddons == [defined |-> FALSE, selected_addons |-> <<>>]
AddonsOf(list) == [defined |-> TRUE, selected_addons |-> list]
Addon(type, name, hasMeta, meta) ==
    [type |-> type, name |-> name, hasMeta |-> hasMeta, meta |-> meta]

\* useResourceWarningsQuery: data is undefined or a list of records
NoWarnings == [defined |-> FALSE, list |-> <<>>]
WarningsOf(list) == [defined |-> TRUE, list |-> list]
Warning(p, cpu, mem) ==
    [project |-> p, cpu_exhaustion |-> cpu, memory_and_swap_exhaustion |-> mem]

(***************************************************************************)
(* The render function, top to bottom.                                     *)
(***************************************************************************)
\* resourceWarnings?.find((x) => x.project === projectRef)
ProjectResourceWarnings(rw) ==
    LET hits == {i \in 1..Len(rw.list) : rw.list[i].project = projectRef}
    IN  IF rw.defined /\ hits # {}
        THEN [found |-> TRUE,
              rec |-> rw.list[CHOOSE i \in hits : \A j \in hits : i <= j]]
        ELSE [found |-> FALSE, rec |-> Warning("", "null", "null")]

\* USAGE_CATEGORIES.find((category) => category.key === 'infra')
CategoryMeta(cat) ==
    LET hits == {i \in 1..Len(cat) : cat[i].key = "infra"}
    IN  IF hits # {}
        THEN [found |-> TRUE,
              attributes |-> cat[CHOOSE i \in hits : \A j \in hits : i <= j].attributes]
        ELSE [found |-> FALSE, attributes |-> <<>>]

\* subscription?.plan?.id !== 'pro' in place of === 'free'
IsFreePlanUnlessPro(sub) == ~(sub.defined /\ sub.planId = "pro")

\* subscription?.plan?.id === 'free'
IsFreePlan(sub) == sub.defined /\ sub.planId = "free"

\* addons?.selected_addons ?? []
SelectedAddons(ad) == IF ad.defined THEN ad.selected_addons ELSE <<>>

\* getAddons(selectedAddons).computeInstance
GetAddonsComputeInstance(selected) ==
    LET hits == {i \in 1..Len(selected) : selected[i].type = "compute_instance"}
    IN  IF hits # {}
        THEN [found |-> TRUE,
              addon |-> selected[CHOOSE i \in hits : \A j \in hits : i <= j]]
        ELSE [found |-> FALSE,
              addon |-> Addon("", "", FALSE, ComputeSpecs(0, 0, 0, 0))]

DefaultComputeSpecs ==
    ComputeSpecs(DefaultBaselineDiskIo, DefaultMaxDiskIo, DefaultCpuCores,
                 DefaultMemoryGb)

\* { ...meta, memory_gb: 1 }: a default field survives next to the metadata
CurrentComputeInstanceSpecsMixed(computeInstance) ==
    IF computeInstance.found /\ computeInstance.addon.hasMeta
    THEN [computeInstance.addon.meta EXCEPT !.memory_gb = DefaultMemoryGb]
    ELSE DefaultComputeSpecs

\* computeInstance?.variant?.meta ?? { ...defaults }
CurrentComputeInstanceSpecs(computeInstance) ==
    IF computeInstance.found /\ computeInstance.addon.hasMeta
    THEN computeInstance.addon.meta
    ELSE DefaultComputeSpecs

\* x <= k on JavaScript numbers: false when x is NaN
LessOrEqual(x, k) == ~x.nan /\ x.n <= k

\* interval and dateFormat
IntervalOf(s, e, n) ==
    IF Truthy(s) /\ Truthy(e)
           /\ LessOrEqual(DiffHours(Dayjs(e, n), Dayjs(s, n)), HourlyThreshold)
    THEN [interval |-> "1h", dateFormat |-> "h a"]
    ELSE [interval |-> "1d", dateFormat |-> "DD MMM"]

\* dayjs(endDate!).isAfter(dayjs().startOf('day'))
HasLatest(e, n) == IsAfter(Dayjs(e, n), StartOfDay(Dayjs(UndefinedDate, n)))

LatestIoBudgetConsumption(hasLatest, q) ==
    IF hasLatest /\ q.hasData /\ Len(q.data) > 0
    THEN Number(q.data[Len(q.data)])
    ELSE Num(0)

HighestIoBudgetConsumption(q) ==
    LET d == IF q.hasData THEN q.data ELSE <<>>
    IN  MathMax([i \in 1..Len(d) |-> NumberOrZero(d[i])] \o <<Num(0)>>)

ChartMeta(im) ==
    [m \in Metrics |->
        [isLoading |-> im[m].isLoading,
         data |-> IF im[m].hasData THEN im[m].data ELSE <<>>]]

\* chartMeta[attribute.key]?.data ?? []
ChartData(chartMeta, key) ==
    IF key \in DOMAIN chartMeta THEN chartMeta[key].data ELSE <<>>

\* the sentence under "Disk IO Bandwidth"
BandwidthSentence(specs) ==
    IF specs.baseline_disk_io_mbs = specs.max_disk_io_mbs THEN "fixed" ELSE "burst"

\* the row rendered without its condition
BurstRowAlways(specs) == TRUE

\* the "Daily burst time limit / 30 mins" row
BurstRowShown(specs) == specs.max_disk_io_mbs # specs.baseline_disk_io_mbs

\* one loading flag shared by the three charts
ChartBodySharedLoading(chartMeta, key, chartData) ==
    IF key \notin DOMAIN chartMeta THEN "TypeError"
    ELSE IF \E m \in DOMAIN chartMeta : chartMeta[m].isLoading THEN "loader"
    ELSE IF Len(chartData) # 0 THEN "chart"
    ELSE "empty"

\* the chart body; reading .isLoading of a missing chartMeta entry throws
ChartBody(chartMeta, key, chartData) ==
    IF key \notin DOMAIN chartMeta THEN "TypeError"
    ELSE IF chartMeta[key].isLoading THEN "loader"
    ELSE IF Len(chartData) # 0 THEN "chart"
    ELSE "empty"

Severity(prw, field) ==
    IF ~prw.found THEN "undefined"
    ELSE IF field = "cpu" THEN prw.rec.cpu_exhaustion
    ELSE prw.rec.memory_and_swap_exhaustion

\* one element of categoryMeta.attributes.map(...)
Section(key, specs, prw, chartMeta, iv) ==
    [key |-> key,
     warning |-> CASE key = "disk_io_consumption" -> "DiskIOBandwidthWarnings"
                   [] key = "max_cpu_usage" -> "CPUWarnings"
                   [] key = "ram_usage" -> "RAMWarnings"
                   [] OTHER -> "none",
     severity |-> CASE key = "max_cpu_usage" -> Severity(prw, "cpu")
                    [] key = "ram_usage" -> Severity(prw, "memory")
                    [] OTHER -> "none",
     sentence |-> IF key = "disk_io_consumption"
                  THEN BandwidthSentence(specs) ELSE "none",
     burstRow |-> key = "disk_io_consumption" /\ BurstRowShown(specs),
     per |-> IF iv.interval = "1d" THEN "day" ELSE "hour",
     smallestComputeNote |-> key = "ram_usage" /\ specs.memory_gb = 1,
     chartData |-> ChartData(chartMeta, key),
     chartBody |-> ChartBody(chartMeta, key, ChartData(chartMeta, key))]

\* what the component returns: null, the fragment, or a thrown TypeError
Output(cat, specs, prw, chartMeta, iv) ==
    LET meta == CategoryMeta(cat)
        sections == [i \in 1..Len(meta.attributes) |->
                        Section(meta.attributes[i], specs, prw, chartMeta, iv)]
    IN  IF ~meta.found
        THEN [status |-> "null", header |-> FALSE, sections |-> <<>>]
        ELSE IF \E i \in 1..Len(sections) : sections[i].chartBody = "TypeError"
        THEN [status |-> "error", header |-> FALSE, sections |-> <<>>]
        ELSE [status |-> "rendered", header |-> TRUE, sections |-> sections]

RenderOf(s, e, n, cat, sub, rw, ad, im) ==
    LET prw == ProjectResourceWarnings(rw)
        computeInstance == GetAddonsComputeInstance(SelectedAddons(ad))
        specs == CurrentComputeInstanceSpecs(computeInstance)
        iv == IntervalOf(s, e, n)
        hasLatest == HasLatest(e, n)
        chartMeta == ChartMeta(im)
    IN  [projectResourceWarnings |-> prw,
         isFreePlan |-> IsFreePlan(sub),
         currentComputeInstanceSpecs |-> specs,
         interval |-> iv.interval,
         dateFormat |-> iv.dateFormat,
         hasLatest |-> hasLatest,
         latestIoBudgetConsumption |->
             LatestIoBudgetConsumption(hasLatest, im["disk_io_consumption"]),
         highestIoBudgetConsumption |->
             HighestIoBudgetConsumption(im["disk_io_consumption"]),
         chartMeta |-> chartMeta,
         output |-> Output(cat, specs, prw, chartMeta, iv)]

\* `render` holds the values of the render pass over the current state
Rendered ==
    render = RenderOf(startDate, endDate, now, catalog, subscription,
                      resourceWarnings, addons, infraMonitoring)

\* the render pass that ends every event, over the new state
RenderPass ==
    render' = RenderOf(startDate', endDate', now', catalog', subscription',
                       resourceWarnings', addons', infraMonitoring')

(***************************************************************************)
(* Inputs.                                                                 *)
(***************************************************************************)
FineDates ==
    {UndefinedDate, EmptyDate, InvalidDate} \cup {Ts(30 * i) : i \in 0..MaxSlot}

CoarseTimes == {12 * MinutesPerHour * i : i \in 0..MaxHalfDay}
CoarseDates == {UndefinedDate, InvalidDate} \cup {Ts(t) : t \in CoarseTimes}
\* start dates at both ends of the fine grid
IntervalStarts ==
    {UndefinedDate, EmptyDate, InvalidDate, Ts(0), Ts(30), Ts(30 * MaxSlot)}

\* values of the points of a disk I/O series
IoValues ==
    {v \in RawValues : v.t = "numeric_string" => v.n = 1}
SeqsUpTo(S, k) == UNION {[1..j -> S] : j \in 0..k}
IoSeries == SeqsUpTo(IoValues, MaxLen)

Point(n) == [t |-> "number", n |-> n]
PanelSeries(m) ==
    IF m = "disk_io_consumption"
    THEN {<<>>, <<Point(1)>>, <<[t |-> "undefined", n |-> 0]>>}
    ELSE {<<>>, <<Point(1)>>}

Category(key, attributes) == [key |-> key, attributes |-> attributes]
StandardCatalog ==
    <<Category("infra", <<"max_cpu_usage", "ram_usage", "disk_io_consumption">>),
      Category("bandwidth", <<"egress">>)>>
Catalogs ==
    {StandardCatalog,
     <<Category("bandwidth", <<"egress">>)>>,
     <<Category("infra", <<>>)>>,
     <<Category("bandwidth", <<"egress">>),
       Category("infra", <<"disk_io_consumption", "max_cpu_usage">>)>>,
     <<Category("infra", <<"max_cpu_usage", "ram_usage", "disk_io_consumption",
                           "swap_usage">>)>>}

Subscriptions == {SubscriptionOf("free"), SubscriptionOf("pro")}

PitrAddon == Addon("pitr", "7 days", FALSE, ComputeSpecs(0, 0, 0, 0))
AddonLists ==
    {<<>>,
     <<PitrAddon>>,
     <<PitrAddon, Addon("compute_instance", "Small", TRUE, ComputeSpecs(174, 2085, 2, 2))>>,
     <<Addon("compute_instance", "4XL", TRUE, ComputeSpecs(4750, 4750, 16, 64))>>,
     <<Addon("compute_instance", "Custom", FALSE, ComputeSpecs(0, 0, 0, 0))>>}

WarningLists ==
    {<<>>,
     <<Warning("p2", "critical", "warning")>>,
     <<Warning("p2", "critical", "warning"), Warning("p1", "warning", "null")>>}

(***************************************************************************)
(* Events.  Each one ends with the render pass it triggers.                *)
(***************************************************************************)
\* the parent passes another startDate: the three metric queries get a new
\* key and start over
SetStartDate(d) ==
    /\ d # startDate
    /\ startDate' = d
    /\ infraMonitoring' = [m \in Metrics |-> Loading]
    /\ UNCHANGED <<endDate, now, catalog, subscription, resourceWarnings, addons>>
    /\ RenderPass

\* the parent passes another endDate
SetEndDate(d) ==
    /\ d # endDate
    /\ endDate' = d
    /\ infraMonitoring' = [m \in Metrics |-> Loading]
    /\ UNCHANGED <<startDate, now, catalog, subscription, resourceWarnings, addons>>
    /\ RenderPass

\* the component renders again at a later time
Rerender(n) ==
    /\ n > now
    /\ now' = n
    /\ UNCHANGED <<startDate, endDate, catalog, subscription, resourceWarnings,
                   addons, infraMonitoring>>
    /\ RenderPass

SubscriptionSettled(s) ==
    /\ s # subscription
    /\ subscription' = s
    /\ UNCHANGED <<startDate, endDate, now, catalog, resourceWarnings, addons,
                   infraMonitoring>>
    /\ RenderPass

AddonsSettled(list) ==
    /\ AddonsOf(list) # addons
    /\ addons' = AddonsOf(list)
    /\ UNCHANGED <<startDate, endDate, now, catalog, subscription,
                   resourceWarnings, infraMonitoring>>
    /\ RenderPass

ResourceWarningsSettled(list) ==
    /\ WarningsOf(list) # resourceWarnings
    /\ resourceWarnings' = WarningsOf(list)
    /\ UNCHANGED <<startDate, endDate, now, catalog, subscription, addons,
                   infraMonitoring>>
    /\ RenderPass

\* the pending fetch of metric m resolves with a series
FetchSettled(m, series) ==
    /\ infraMonitoring[m].isLoading
    /\ infraMonitoring' = [infraMonitoring EXCEPT ![m] = Success(series)]
    /\ UNCHANGED <<startDate, endDate, now, catalog, subscription,
                   resourceWarnings, addons>>
    /\ RenderPass

\* the pending fetch of metric m fails
FetchFailed(m) ==
    /\ infraMonitoring[m].isLoading
    /\ infraMonitoring' = [infraMonitoring EXCEPT ![m] = Failed]
    /\ UNCHANGED <<startDate, endDate, now, catalog, subscription,
                   resourceWarnings, addons>>
    /\ RenderPass

\* a background refetch of metric m brings one more point
Refetched(m, v) ==
    /\ infraMonitoring[m].hasData
    /\ Len(infraMonitoring[m].data) < MaxLen
    /\ infraMonitoring' =
           [infraMonitoring EXCEPT ![m] = Success(Append(infraMonitoring[m].data, v))]
    /\ UNCHANGED <<startDate, endDate, now, catalog, subscription,
                   resourceWarnings, addons>>
    /\ RenderPass

(***************************************************************************)
(* Specifications.                                                         *)
(***************************************************************************)
\* the first render: no hook has a result yet
Mounted(cats, starts, ends, times) ==
    /\ catalog \in cats
    /\ startDate \in starts
    /\ endDate \in ends
    /\ now \in times
    /\ subscription = NoSubscription
    /\ resourceWarnings = NoWarnings
    /\ addons = NoAddons
    /\ infraMonitoring = [m \in Metrics |-> Loading]
    /\ Rendered

\* The panel: every catalog and every hook, over one day seen at noon.
Init ==
    Mounted(Catalogs, {Ts(0)}, {Ts(HoursPerDay * MinutesPerHour)},
            {12 * MinutesPerHour})

Next ==
    \/ \E s \in Subscriptions : SubscriptionSettled(s)
    \/ \E l \in AddonLists : AddonsSettled(l)
    \/ \E l \in WarningLists : ResourceWarningsSettled(l)
    \/ \E m \in Metrics : \E series \in PanelSeries(m) : FetchSettled(m, series)
    \/ \E m \in Metrics : FetchFailed(m)

Spec == Init /\ [][Next]_vars

\* Interval selection: every end date of the fine grid against start dates
\* at both of its ends.
InitInterval == Mounted({StandardCatalog}, {UndefinedDate}, {UndefinedDate}, {0})

NextInterval ==
    \/ \E d \in IntervalStarts : SetStartDate(d)
    \/ \E d \in FineDates : SetEndDate(d)

SpecInterval == InitInterval /\ [][NextInterval]_vars

\* Disk I/O scalars: every series, end date and clock of the coarse grid.
InitIo == Mounted({StandardCatalog}, {UndefinedDate}, {UndefinedDate}, {0})

NextIo ==
    \/ \E d \in CoarseDates : SetEndDate(d)
    \/ \E n \in CoarseTimes : Rerender(n)
    \/ \E series \in IoSeries : FetchSettled("disk_io_consumption", series)
    \/ FetchFailed("disk_io_consumption")
    \/ \E v \in IoValues : Refetched("disk_io_consumption", v)

SpecIo == InitIo /\ [][NextIo]_vars

(***************************************************************************)
(* Properties.                                                             *)
(***************************************************************************)
IoQuery == infraMonitoring["disk_io_consumption"]
IoData == IF IoQuery.hasData THEN IoQuery.data ELSE <<>>
Sections == render.output.sections
SectionsOf(key) == {i \in 1..Len(Sections) : Sections[i].key = key}
HasInfra == \E i \in 1..Len(catalog) : catalog[i].key = "infra"
InfraAttributes ==
    (CHOOSE c \in {catalog[i] : i \in 1..Len(catalog)} : c.key = "infra").attributes

\* C1: when both dates are present and end minus start is at most 48 hours
\* the interval is '1h' with format 'h a'; when the difference is more than
\* 48 hours (48 h 30 min included), or a date is missing, the interval is
\* '1d' with format 'DD MMM'.
C1_IntervalByExactDifference ==
    LET both == startDate.k = "ts" /\ endDate.k = "ts"
        diff == endDate.t - startDate.t
        missing == startDate.k \in {"undefined", "empty"}
                       \/ endDate.k \in {"undefined", "empty"}
        hourly == render.interval = "1h" /\ render.dateFormat = "h a"
        daily == render.interval = "1d" /\ render.dateFormat = "DD MMM"
    IN  /\ (both /\ diff <= 48 * 60) => hourly
        /\ (both /\ diff > 48 * 60) => daily
        /\ missing => daily

\* C2: for each metric whose section is rendered, the chart body is the
\* loading placeholder iff that metric's own fetch is loading, otherwise the
\* bar chart iff its own series is non-empty, otherwise the empty-state
\* panel; no other metric's fetch takes part, and each metric of the catalog
\* has one section.
C2_ChartBodyPerMetric ==
    render.output.status = "rendered" =>
        /\ \A i \in 1..Len(Sections) :
               Sections[i].key \in Metrics =>
                   LET q == infraMonitoring[Sections[i].key]
                   IN  /\ Sections[i].chartBody \in {"loader", "chart", "empty"}
                       /\ Sections[i].chartBody = "loader" <=> q.isLoading
                       /\ Sections[i].chartBody = "chart"
                              <=> (~q.isLoading /\ q.hasData /\ Len(q.data) > 0)
                       /\ Sections[i].chartBody = "chart"
                              => Sections[i].chartData = q.data
        /\ \A m \in Metrics :
               (\E j \in 1..Len(InfraAttributes) : InfraAttributes[j] = m)
                   => Cardinality(SectionsOf(m)) = 1

\* C2 witness: the three fetches partly settled, each chart in another body
C2_PartlySettled ==
    /\ catalog = StandardCatalog
    /\ render.output.status = "rendered"
    /\ \E i \in SectionsOf("max_cpu_usage") : Sections[i].chartBody = "chart"
    /\ \E i \in SectionsOf("ram_usage") : Sections[i].chartBody = "loader"
    /\ \E i \in SectionsOf("disk_io_consumption") : Sections[i].chartBody = "empty"

\* C3: highestIoBudgetConsumption is the maximum over 0 and the numeric
\* values of the disk I/O series, a value that is missing or not a number
\* counting as 0; it is never NaN.
C3_HighestNeverNaN ==
    LET vals == {0} \cup {IF Number(IoData[i]).nan THEN 0 ELSE Number(IoData[i]).n :
                              i \in 1..Len(IoData)}
    IN  /\ ~render.highestIoBudgetConsumption.nan
        /\ render.highestIoBudgetConsumption.n
               = CHOOSE v \in vals : \A w \in vals : v >= w

\* C4: hasLatest is true iff the end timestamp of the range is strictly
\* after the start of the current day, and latestIoBudgetConsumption is the
\* numeric value of the last point when hasLatest is true and the series is
\* non-empty, and 0 in every other case.
C4_HasLatestIffEndAfterStartOfToday ==
    LET startOfToday == now - (now % (24 * 60))
    IN  /\ render.hasLatest <=> (endDate.k = "ts" /\ endDate.t > startOfToday)
        /\ render.latestIoBudgetConsumption
               = IF render.hasLatest /\ Len(IoData) > 0
                 THEN Number(IoData[Len(IoData)])
                 ELSE Num(0)

\* C5: an attribute of the 'infra' category whose key has no chartMeta entry
\* is rendered, without an error, as a section with an empty series and the
\* empty-state panel.
C5_UnknownAttributeRendersEmpty ==
    HasInfra =>
        \A j \in 1..Len(InfraAttributes) :
            InfraAttributes[j] \notin Metrics =>
                /\ render.output.status = "rendered"
                /\ \E i \in SectionsOf(InfraAttributes[j]) :
                       /\ Sections[i].chartData = <<>>
                       /\ Sections[i].chartBody = "empty"

\* C6: without an 'infra' category nothing is rendered (no header, no
\* section); with one, the header and one section per catalog attribute are
\* rendered.
C6_NothingWithoutInfraElseAllSections ==
    IF ~HasInfra
    THEN /\ render.output.status = "null"
         /\ ~render.output.header
         /\ Sections = <<>>
    ELSE /\ render.output.status = "rendered"
         /\ render.output.header
         /\ Len(Sections) = Len(InfraAttributes)
         /\ \A i \in 1..Len(Sections) : Sections[i].key = InfraAttributes[i]

\* C7: whatever upstream lookups are still undefined, rendering does not
\* fail and defaults stand in: an unresolved metric series is the empty
\* series, the latest and highest disk I/O consumption are 0 while the disk
\* I/O data is undefined, the compute spec is the default while add-ons are
\* undefined, isFreePlan is false while the subscription is undefined, and
\* the CPU and RAM severities are undefined while the project has no
\* warning record.
C7_UndefinedUpstreamDefaults ==
    /\ (HasInfra /\ \A j \in 1..Len(InfraAttributes) : InfraAttributes[j] \in Metrics)
           => render.output.status = "rendered"
    /\ \A m \in Metrics :
           ~infraMonitoring[m].hasData => render.chartMeta[m].data = <<>>
    /\ ~IoQuery.hasData =>
           /\ render.latestIoBudgetConsumption = [nan |-> FALSE, n |-> 0]
           /\ render.highestIoBudgetConsumption = [nan |-> FALSE, n |-> 0]
    /\ ~addons.defined =>
           render.currentComputeInstanceSpecs
               = [baseline_disk_io_mbs |-> 87, max_disk_io_mbs |-> 2085,
                  cpu_cores |-> 2, cpu_dedicated |-> TRUE, memory_gb |-> 1]
    /\ ~subscription.defined => ~render.isFreePlan
    /\ (~resourceWarnings.defined
            \/ \A k \in 1..Len(resourceWarnings.list) :
                   resourceWarnings.list[k].project # projectRef)
           => \A i \in SectionsOf("max_cpu_usage") \cup SectionsOf("ram_usage") :
                  Sections[i].severity = "undefined"

\* C7 witness: some lookups resolved, the others undefined, one fetch failed
C7_PartlyUndefined ==
    /\ catalog = StandardCatalog
    /\ render.output.status = "rendered"
    /\ ~subscription.defined
    /\ ~addons.defined
    /\ resourceWarnings.defined
    /\ \A k \in 1..Len(resourceWarnings.list) :
           resourceWarnings.list[k].project # projectRef
    /\ Len(resourceWarnings.list) > 0
    /\ IoQuery = Failed
    /\ infraMonitoring["max_cpu_usage"].hasData
    /\ infraMonitoring["ram_usage"].isLoading

\* C8: in the disk I/O section, equal baseline and maximum throughput give
\* the fixed-throughput sentence and no burst row; different values give the
\* burst sentence and the burst row.
C8_BurstSentenceAndRowTogether ==
    \A i \in SectionsOf("disk_io_consumption") :
        LET specs == render.currentComputeInstanceSpecs
        IN  /\ Sections[i].sentence \in {"fixed", "burst"}
            /\ specs.baseline_disk_io_mbs = specs.max_disk_io_mbs
                   => (Sections[i].sentence = "fixed" /\ ~Sections[i].burstRow)
            /\ specs.baseline_disk_io_mbs # specs.max_disk_io_mbs
                   => (Sections[i].sentence = "burst" /\ Sections[i].burstRow)

\* C8 witness: a compute add-on whose baseline equals its maximum, rendered
C8_FixedThroughputShown ==
    /\ addons.defined
    /\ \E k \in 1..Len(addons.selected_addons) :
           /\ addons.selected_addons[k].type = "compute_instance"
           /\ addons.selected_addons[k].hasMeta
           /\ addons.selected_addons[k].meta.baseline_disk_io_mbs
                  = addons.selected_addons[k].meta.max_disk_io_mbs
    /\ \E i \in SectionsOf("disk_io_consumption") : Sections[i].sentence = "fixed"

\* C9: without a compute-instance add-on among the selected add-ons (the
\* list empty or undefined included) the compute spec is exactly the default
\* {87, 2085, 2 cores, dedicated, 1 GB}; with a compute-instance add-on that
\* carries variant metadata it is exactly that metadata.
C9_ComputeSpecResolution ==
    LET sel == IF addons.defined THEN addons.selected_addons ELSE <<>>
        ci == {k \in 1..Len(sel) : sel[k].type = "compute_instance"}
    IN  /\ ci = {} =>
               render.currentComputeInstanceSpecs
                   = [baseline_disk_io_mbs |-> 87, max_disk_io_mbs |-> 2085,
                      cpu_cores |-> 2, cpu_dedicated |-> TRUE, memory_gb |-> 1]
        /\ \A k \in ci :
               ((\A j \in ci : k <= j) /\ sel[k].hasMeta)
                   => render.currentComputeInstanceSpecs = sel[k].meta

\* C9 witness: a compute-instance add-on with metadata unlike the default
C9_AddonMetadataUsed ==
    /\ addons.defined
    /\ \E k \in 1..Len(addons.selected_addons) :
           /\ addons.selected_addons[k].type = "compute_instance"
           /\ addons.selected_addons[k].hasMeta
           /\ addons.selected_addons[k].meta.memory_gb # 1
           /\ render.currentComputeInstanceSpecs = addons.selected_addons[k].meta

\* C10: when every value of the disk I/O series is a number, the two scalars
\* handed to DiskIOBandwidthWarnings satisfy latest <= highest and
\* highest >= 0.
C10_LatestAtMostHighest ==
    (\A i \in 1..Len(IoData) : IoData[i].t = "number") =>
        /\ ~render.latestIoBudgetConsumption.nan
        /\ ~render.highestIoBudgetConsumption.nan
        /\ render.latestIoBudgetConsumption.n <= render.highestIoBudgetConsumption.n
        /\ render.highestIoBudgetConsumption.n >= 0

\* C10 witness: the range reaches today and the last point is positive and
\* below an earlier one
C10_LatestBelowEarlierPeak ==
    /\ render.hasLatest
    /\ Len(IoData) = 2
    /\ \A i \in 1..Len(IoData) : IoData[i].t = "number"
    /\ 0 < IoData[2].n /\ IoData[2].n < IoData[1].n
    /\ render.latestIoBudgetConsumption.n = IoData[2].n
    /\ \E i \in SectionsOf("disk_io_consumption") :
           Sections[i].warning = "DiskIOBandwidthWarnings"

====
